---- MODULE Spec2Model ----
(***************************************************************************)
(* Model of the traversal engine of rbroggi/web-crawler                    *)
(* (src/crawler/crawler.go): the recursive crawler (strategy A, NewCrawler *)
(* / recursiveVisit) and the cyclic crawler (strategy B, NewCyclicCrawler  *)
(* / dispatchScrapperGoRoutines / scrapePage), together with the pure      *)
(* helpers GetLinkAbsoluteUrl, isSameDomain and GetPageLinks.              *)
(*                                                                         *)
(* A path is the sequence strings.Split(path, "/") of the Go string, so    *)
(* ""  is <<"">>, "/" is <<"", "">>, "/a" is <<"", "a">>, "a" is <<"a">>.  *)
(* A URL is the record of the fields of url.URL the crawler reads.         *)
(***************************************************************************)
EXTENDS Integers, Sequences, FiniteSets

---------------------------------------------------------------------------
(* Bounds of the model *)

\* most goroutines one Crawl may start (tasks of A, workers of B)
MaxTasks == 8

\* largest pool size handed to NewCyclicCrawler
MaxPool == 2

\* a uint32 is kept as its two 16-bit halves, value = hi * Half + lo
Half == 65536

U32(n) == [hi |-> n \div Half, lo |-> n % Half]

\* ^uint32(1): added to a uint32 it subtracts two
AllOnesButOne == [hi |-> Half - 1, lo |-> Half - 2]

\* ^uint32(0)
AllOnes == [hi |-> Half - 1, lo |-> Half - 1]

\* atomic.AddUint32(addr, delta): addition modulo 2^32
AddUint32(a, d) ==
    [hi |-> (a.hi + d.hi + ((a.lo + d.lo) \div Half)) % Half,
     lo |-> (a.lo + d.lo) % Half]

---------------------------------------------------------------------------
(* URLs, hrefs and the pure helpers *)

\* the nil *url.URL
NoURL == [scheme |-> "nil", host |-> "", path |-> <<>>]

MkURL(s, h, p) == [scheme |-> s, host |-> h, path |-> p]

\* u.String(): the canonical key of the visited map
String(u) == <<u.scheme, "://", u.host, u.path>>

\* url.Parse(link): an href whose first character is ':' has no scheme
ParseErr(link) == link.scheme = "" /\ link.colon

\* (*url.URL).IsAbs
IsAbs(r) == r.scheme # ""

\* strings.HasPrefix(link, "/"): the href is a rooted path, or it has no
\* scheme and starts with the "//" of a host
HasSlashPrefix(link) ==
    link.scheme = "" /\ (link.host # "" \/ (Len(link.path) >= 2 /\ link.path[1] = ""))

RECURSIVE DropEmpty(_)
\* path.Clean on a slash-joined path: empty and "." elements vanish
DropEmpty(s) ==
    IF s = <<>> THEN <<>>
    ELSE IF s[1] \in {"", "."} THEN DropEmpty(Tail(s))
         ELSE <<s[1]>> \o DropEmpty(Tail(s))

\* path.Dir(p): all but the last element of p, cleaned
PathDir(p) ==
    LET d == SubSeq(p, 1, Len(p) - 1) IN
    IF d = <<>> THEN <<".">>
    ELSE IF DropEmpty(d) = <<>> THEN <<"", "">>
         ELSE IF d[1] = "" THEN <<"">> \o DropEmpty(d) ELSE DropEmpty(d)

\* path.Join(dir, link): the cleaned concatenation dir + "/" + link
PathJoin(dir, p) ==
    LET rooted == dir[1] = "" /\ Len(dir) >= 2
        segs   == DropEmpty(dir \o p)
    IN  IF rooted THEN (IF segs = <<>> THEN <<"", "">> ELSE <<"">> \o segs)
        ELSE IF segs = <<>> THEN <<".">> ELSE segs

\* parent.Parse(ref) for a reference without scheme, of host h and path p:
\* url.ResolveReference keeps the parent's scheme; a reference with a host
\* ("//h/p") keeps its own host and path; otherwise the parent's host is
\* kept, a rooted path replaces the parent's path and any other path is
\* merged with the parent's directory, the result being rooted
ParentParse(parent, h, p) ==
    LET rooted == p[1] = "" /\ Len(p) >= 2
        base   == SubSeq(parent.path, 1, Len(parent.path) - 1)
        merged == DropEmpty(base \o p)
    IN  IF h # "" THEN MkURL(parent.scheme, h, p)
        ELSE MkURL(parent.scheme, parent.host,
                   IF rooted THEN p
                   ELSE IF merged = <<>> THEN <<"", "">> ELSE <<"">> \o merged)

\* GetLinkAbsoluteUrl joining the link to parent.Path, not to its directory
GetLinkAbsoluteUrlFullPath(parent, link) ==
    IF ParseErr(link) THEN [err |-> TRUE, url |-> NoURL]
    ELSE IF IsAbs(link)
         THEN [err |-> FALSE, url |-> MkURL(link.scheme, link.host, link.path)]
    ELSE IF HasSlashPrefix(link)
         THEN [err |-> FALSE, url |-> ParentParse(parent, link.host, link.path)]
    ELSE [err |-> FALSE,
          url |-> ParentParse(parent, "", PathJoin(parent.path, link.path))]

\* GetLinkAbsoluteUrl(parent, link): [err, url]
GetLinkAbsoluteUrl(parent, link) ==
    IF ParseErr(link) THEN [err |-> TRUE, url |-> NoURL]
    ELSE IF IsAbs(link)
         THEN [err |-> FALSE, url |-> MkURL(link.scheme, link.host, link.path)]
    ELSE IF HasSlashPrefix(link)
         THEN [err |-> FALSE, url |-> ParentParse(parent, link.host, link.path)]
    ELSE [err |-> FALSE,
          url |-> ParentParse(parent, "", PathJoin(PathDir(parent.path), link.path))]

\* isSameDomain comparing the origin, scheme and host, instead of the host
isSameOrigin(p, u) ==
    IF p = NoURL \/ u = NoURL THEN FALSE
    ELSE p.scheme = u.scheme /\ p.host = u.host

\* isSameDomain(p, u)
isSameDomain(p, u) ==
    IF p = NoURL \/ u = NoURL THEN FALSE ELSE p.host = u.host

---------------------------------------------------------------------------
(* The sites crawled: a site maps the canonical string of each page it    *)
(* serves to the set of hrefs GetPageLinks extracts from the page.        *)

Href(s, h, p) == [scheme |-> s, host |-> h, path |-> p, colon |-> FALSE]
AbsHref(u) == Href(u.scheme, u.host, u.path)
BadHref == [scheme |-> "", host |-> "", path |-> <<"bad">>, colon |-> TRUE]

Root == MkURL("http", "h", <<"", "index.html">>)
PA == MkURL("http", "h", <<"", "a">>)
PB == MkURL("http", "h", <<"", "b">>)
PX == MkURL("http", "x", <<"", "a">>)
PC == MkURL("http", "h", <<"", "c">>)
PD == MkURL("http", "h", <<"", "d">>)

Pages == {Root, PA, PB}
Urls == Pages \cup {PC, PD, PX}
Keys == {String(u) : u \in Urls}

\* a single page without links
SiteSingle == [k \in Keys |-> {}]

\* the root names page a twice, by a rooted and by a sibling-relative href
SiteTwin ==
    [k \in Keys |->
        IF k = String(Root) THEN {Href("", "", <<"", "a">>), Href("", "", <<"a">>)}
        ELSE {}]

\* a diamond with a cycle, a link leaving the domain and a malformed href
SiteDiamond ==
    [k \in Keys |->
        IF k = String(Root) THEN {Href("", "", <<"", "a">>), Href("", "", <<"b">>)}
        ELSE IF k = String(PA) THEN {Href("", "", <<"", "b">>), BadHref}
        ELSE IF k = String(PB) THEN {AbsHref(Root), AbsHref(PX)}
        ELSE {}]

\* a chain root -> a -> b
SiteChain ==
    [k \in Keys |->
        IF k = String(Root) THEN {AbsHref(PA)}
        ELSE IF k = String(PA) THEN {Href("", "", <<"b">>)}
        ELSE {}]

\* a fan: the root links to four pages without links
SiteFan ==
    [k \in Keys |->
        IF k = String(Root) THEN {AbsHref(PA), AbsHref(PB), AbsHref(PC), AbsHref(PD)}
        ELSE {}]

Sites == {SiteSingle, SiteTwin, SiteDiamond, SiteChain, SiteFan}


\* the fetches that always fail: none, or those of one page
FailingSets == {{}} \cup {{String(p)} : p \in Pages}

\* who cancels the context: nobody, the visit callback, or a signal
CancelModes == {"never", "onVisit", "external"}

\* the arguments of one run: the constructor used, the pool size given to
\* NewCyclicCrawler, the base URL, and the behaviour of the collaborators
Configs ==
    {c \in [strategy : {"A", "B"}, site : Sites, failing : FailingSets,
            cancelMode : CancelModes, pool : 0..MaxPool, base : {Root, NoURL}] :
        /\ c.strategy = "A" => c.pool = 0
        /\ c.base = NoURL =>
              c.site = SiteSingle /\ c.failing = {} /\ c.cancelMode = "never"
        /\ c.site = SiteFan =>
              /\ c.strategy = "B" /\ c.pool <= 1
              /\ c.failing = {} /\ c.cancelMode = "never"}

---------------------------------------------------------------------------
(* State *)

VARIABLES
    cfg,            \* the run's arguments and collaborators (never changes)
    cancelled,      \* ctx.Done() is closed
    visited,        \* the visited map: a set of canonical strings
    fetched,        \* per URL, the number of getPage calls started
    visits,         \* per URL, the number of visit calls made
    crawlPc,        \* position of the goroutine running Crawl
    crawlErr,       \* what Crawl returned: "none" until it returns
    panicked,       \* a goroutine panicked: the process is gone
    wg,             \* A: the WaitGroup counter
    rwWriter,       \* A: the task holding rw.Lock, 0 when none
    rwReaders,      \* A: the tasks holding rw.RLock
    tasks,          \* A: the goroutines of recursiveVisit, in spawn order
    tokens,         \* B: number of elements in the tokens channel
    ch,             \* B: content of chLinkCandidates
    closed,         \* B: chLinkCandidates is closed
    numGoroutines,  \* B: the uint32 live-worker counter
    workers,        \* B: the scraping goroutines, in dispatch order
    batch,          \* B: candidateURLs of the running dispatch call
    idx,            \* B: index of the next element of batch
    call            \* the last direct call of a pure helper and its result

aVars == <<wg, rwWriter, rwReaders, tasks>>
bVars == <<tokens, ch, closed, numGoroutines, workers, batch, idx>>
obsVars == <<cancelled, visited, fetched, visits>>
crawlVars == <<crawlPc, crawlErr, panicked>>
vars == <<cfg, cancelled, visited, fetched, visits, crawlPc, crawlErr, panicked,
          wg, rwWriter, rwReaders, tasks,
          tokens, ch, closed, numGoroutines, workers, batch, idx, call>>

\* no helper has been called directly
NoCall == [fn |-> "none", a |-> NoURL, b |-> NoURL, out |-> FALSE]

Init ==
    /\ cfg \in Configs
    /\ cancelled = FALSE
    /\ visited = {}
    /\ fetched = [k \in Keys |-> 0]
    /\ visits = [k \in Keys |-> 0]
    /\ crawlPc = "start"
    /\ crawlErr = "none"
    /\ panicked = FALSE
    /\ wg = 0
    /\ rwWriter = 0
    /\ rwReaders = {}
    /\ tasks = <<>>
    /\ tokens = 0
    /\ ch = <<>>
    /\ closed = FALSE
    /\ numGoroutines = U32(0)
    /\ workers = <<>>
    /\ batch = <<>>
    /\ idx = 1
    /\ call = NoCall

---------------------------------------------------------------------------
(* The collaborators: getPage, GetPageLinks, visit, the context *)

\* GetPageLinks(page) for the page served at u
GetPageLinks(u) ==
    IF String(u) \in DOMAIN cfg.site THEN cfg.site[String(u)] ELSE {}

\* getPage(ctx, u) may return a page: the fetch is not one that always
\* fails and the context was not yet cancelled when the request was made
GetPageMayReturn(u, ctxDone) == String(u) \notin cfg.failing /\ ~ctxDone

\* getPage(ctx, u) may return an error: the fetch always fails, or the
\* context was cancelled before or while the request was in flight
GetPageMayFail(u, ctxDone) == String(u) \in cfg.failing \/ ctxDone \/ cancelled

\* the caller's visit(u, page): counted, and in mode onVisit it cancels
VisitEffect(u) ==
    /\ visits' = [visits EXCEPT ![String(u)] = @ + 1]
    /\ cancelled' = (cancelled \/ cfg.cancelMode = "onVisit")

\* the signal handler of main cancels the context
Cancel ==
    /\ cfg.cancelMode = "external"
    /\ ~cancelled
    /\ ~panicked
    /\ cancelled' = TRUE
    /\ UNCHANGED <<cfg, call, visited, fetched, visits, crawlVars, aVars, bVars>>

---------------------------------------------------------------------------
(* Strategy A: crawler.Crawl and recursiveVisit *)

\* the goroutine started by recursiveVisit(ctx, rw, wg, visited, u, visit)
NewTask(u) ==
    [u |-> u, pc |-> "lock", page |-> FALSE, links |-> {}, abs |-> NoURL,
     ctxDone |-> FALSE]

\* crawler.Crawl up to wg.Wait()
ACrawl ==
    /\ cfg.strategy = "A" /\ crawlPc = "start" /\ ~panicked
    /\ IF cfg.base = NoURL
       THEN /\ crawlPc' = "returned"
            /\ crawlErr' = "error"
            /\ UNCHANGED aVars
       ELSE /\ wg' = wg + 1
            /\ tasks' = Append(tasks, NewTask(cfg.base))
            /\ crawlPc' = "wait"
            /\ UNCHANGED <<crawlErr, rwWriter, rwReaders>>
    /\ UNCHANGED <<cfg, call, obsVars, panicked, bVars>>

\* wg.Wait() and return nil
ACrawlWait ==
    /\ cfg.strategy = "A" /\ crawlPc = "wait" /\ ~panicked
    /\ wg = 0
    /\ crawlPc' = "returned"
    /\ crawlErr' = "nil"
    /\ UNCHANGED <<cfg, call, obsVars, panicked, aVars, bVars>>

\* ALock on a lock that excludes writers only: readers are not waited for
ALockDespiteReaders(i) ==
    /\ tasks[i].pc = "lock" /\ ~panicked
    /\ rwWriter = 0
    /\ rwWriter' = i
    /\ tasks' = [tasks EXCEPT ![i].pc = "locked"]
    /\ UNCHANGED <<cfg, call, obsVars, crawlVars, wg, rwReaders, bVars>>

\* rw.Lock()
ALock(i) ==
    /\ tasks[i].pc = "lock" /\ ~panicked
    /\ rwWriter = 0 /\ rwReaders = {}
    /\ rwWriter' = i
    /\ tasks' = [tasks EXCEPT ![i].pc = "locked"]
    /\ UNCHANGED <<cfg, call, obsVars, crawlVars, wg, rwReaders, bVars>>

\* AInsert with the insertion left out: the lock is taken and released
AInsertNothing(i) ==
    /\ tasks[i].pc = "locked" /\ ~panicked
    /\ rwWriter' = 0
    /\ tasks' = [tasks EXCEPT ![i].pc = "fetch"]
    /\ UNCHANGED <<cfg, call, obsVars, crawlVars, wg, rwReaders, bVars>>

\* visited[u.String()] = struct{}{} ; rw.Unlock()
AInsert(i) ==
    /\ tasks[i].pc = "locked" /\ ~panicked
    /\ visited' = visited \cup {String(tasks[i].u)}
    /\ rwWriter' = 0
    /\ tasks' = [tasks EXCEPT ![i].pc = "fetch"]
    /\ UNCHANGED <<cfg, call, cancelled, fetched, visits, crawlVars, wg, rwReaders, bVars>>

\* getPage(ctx, u.String()): the request is made
AFetch(i) ==
    /\ tasks[i].pc = "fetch" /\ ~panicked
    /\ fetched' = [fetched EXCEPT ![String(tasks[i].u)] = @ + 1]
    /\ tasks' = [tasks EXCEPT ![i].pc = "fetching", ![i].ctxDone = cancelled]
    /\ UNCHANGED <<cfg, call, cancelled, visited, visits, crawlVars, wg, rwWriter, rwReaders, bVars>>

\* AFetchOk in a goroutine that ranges over the links of the page without
\* calling visit first
AFetchOkNoVisit(i) ==
    /\ tasks[i].pc = "fetching" /\ ~panicked
    /\ GetPageMayReturn(tasks[i].u, tasks[i].ctxDone)
    /\ tasks' = [tasks EXCEPT ![i].pc = "loop", ![i].page = TRUE,
                              ![i].links = GetPageLinks(tasks[i].u)]
    /\ UNCHANGED <<cfg, call, obsVars, crawlVars, wg, rwWriter, rwReaders, bVars>>

\* getPage returned a page
AFetchOk(i) ==
    /\ tasks[i].pc = "fetching" /\ ~panicked
    /\ GetPageMayReturn(tasks[i].u, tasks[i].ctxDone)
    /\ tasks' = [tasks EXCEPT ![i].pc = "visit", ![i].page = TRUE]
    /\ UNCHANGED <<cfg, call, obsVars, crawlVars, wg, rwWriter, rwReaders, bVars>>

\* AFetchErr with wg.Done() called at the end of the goroutine instead of
\* deferred: the early return skips it
AFetchErrNoDone(i) ==
    /\ tasks[i].pc = "fetching" /\ ~panicked
    /\ GetPageMayFail(tasks[i].u, tasks[i].ctxDone)
    /\ tasks' = [tasks EXCEPT ![i].pc = "done"]
    /\ UNCHANGED <<cfg, call, obsVars, crawlVars, wg, rwWriter, rwReaders, bVars>>

\* getPage returned an error: log, return, deferred wg.Done()
AFetchErr(i) ==
    /\ tasks[i].pc = "fetching" /\ ~panicked
    /\ GetPageMayFail(tasks[i].u, tasks[i].ctxDone)
    /\ wg' = wg - 1
    /\ tasks' = [tasks EXCEPT ![i].pc = "done"]
    /\ UNCHANGED <<cfg, call, obsVars, crawlVars, rwWriter, rwReaders, bVars>>

\* visit(u, page) ; links := GetPageLinks(page)
AVisit(i) ==
    /\ tasks[i].pc = "visit" /\ ~panicked
    /\ VisitEffect(tasks[i].u)
    /\ tasks' = [tasks EXCEPT ![i].pc = "loop", ![i].links = GetPageLinks(tasks[i].u)]
    /\ UNCHANGED <<cfg, call, visited, fetched, crawlVars, wg, rwWriter, rwReaders, bVars>>

\* ANextLink with return in place of continue after a failed
\* GetLinkAbsoluteUrl
ANextLinkReturnOnErr(i) ==
    /\ tasks[i].pc = "loop" /\ ~panicked
    /\ IF tasks[i].links = {}
       THEN /\ wg' = wg - 1
            /\ tasks' = [tasks EXCEPT ![i].pc = "done"]
       ELSE \E link \in tasks[i].links :
               LET r == GetLinkAbsoluteUrl(tasks[i].u, link) IN
               IF r.err
               THEN /\ wg' = wg - 1
                    /\ tasks' = [tasks EXCEPT ![i].links = @ \ {link},
                                              ![i].pc = "done"]
               ELSE /\ tasks' = [tasks EXCEPT ![i].links = @ \ {link},
                                              ![i].abs = r.url,
                                              ![i].pc = "rlock"]
                    /\ UNCHANGED wg
    /\ UNCHANGED <<cfg, call, obsVars, crawlVars, rwWriter, rwReaders, bVars>>

\* for link := range links: the next link in map order, GetLinkAbsoluteUrl
\* and its continue; after the last link the deferred wg.Done()
ANextLink(i) ==
    /\ tasks[i].pc = "loop" /\ ~panicked
    /\ IF tasks[i].links = {}
       THEN /\ wg' = wg - 1
            /\ tasks' = [tasks EXCEPT ![i].pc = "done"]
       ELSE /\ \E link \in tasks[i].links :
                 LET r == GetLinkAbsoluteUrl(tasks[i].u, link) IN
                 tasks' = [tasks EXCEPT ![i].links = @ \ {link},
                                        ![i].abs = r.url,
                                        ![i].pc = IF r.err THEN "loop" ELSE "rlock"]
            /\ UNCHANGED wg
    /\ UNCHANGED <<cfg, call, obsVars, crawlVars, rwWriter, rwReaders, bVars>>

\* rw.RLock()
ARLock(i) ==
    /\ tasks[i].pc = "rlock" /\ ~panicked
    /\ rwWriter = 0
    /\ rwReaders' = rwReaders \cup {i}
    /\ tasks' = [tasks EXCEPT ![i].pc = "rlocked"]
    /\ UNCHANGED <<cfg, call, obsVars, crawlVars, wg, rwWriter, bVars>>

\* ARead without the isSameDomain(u, absLink) condition
AReadAnyDomain(i) ==
    /\ tasks[i].pc = "rlocked" /\ ~panicked
    /\ rwReaders' = rwReaders \ {i}
    /\ tasks' = [tasks EXCEPT ![i].pc =
                    IF String(tasks[i].abs) \notin visited
                    THEN "select" ELSE "loop"]
    /\ UNCHANGED <<cfg, call, obsVars, crawlVars, wg, rwWriter, bVars>>

\* _, ok := visited[absLink.String()] ; rw.RUnlock() ;
\* if !ok && isSameDomain(u, absLink)
ARead(i) ==
    /\ tasks[i].pc = "rlocked" /\ ~panicked
    /\ rwReaders' = rwReaders \ {i}
    /\ tasks' = [tasks EXCEPT ![i].pc =
                    IF String(tasks[i].abs) \notin visited
                       /\ isSameDomain(tasks[i].u, tasks[i].abs)
                    THEN "select" ELSE "loop"]
    /\ UNCHANGED <<cfg, call, obsVars, crawlVars, wg, rwWriter, bVars>>

\* ASelect without the case <-ctx.Done(): the default branch is always taken
ASelectNoPoll(i) ==
    /\ tasks[i].pc = "select" /\ ~panicked
    /\ tasks' = [tasks EXCEPT ![i].pc = "spawn"]
    /\ UNCHANGED <<cfg, call, obsVars, crawlVars, wg, rwWriter, rwReaders, bVars>>

\* select { case <-ctx.Done(): return ; default: ... }
ASelect(i) ==
    /\ tasks[i].pc = "select" /\ ~panicked
    /\ IF cancelled
       THEN /\ wg' = wg - 1
            /\ tasks' = [tasks EXCEPT ![i].pc = "done"]
       ELSE /\ tasks' = [tasks EXCEPT ![i].pc = "spawn"]
            /\ UNCHANGED wg
    /\ UNCHANGED <<cfg, call, obsVars, crawlVars, rwWriter, rwReaders, bVars>>

\* ASpawn without the wg.Add(1) that precedes the go statement
ASpawnNoAdd(i) ==
    /\ tasks[i].pc = "spawn" /\ ~panicked
    /\ Len(tasks) < MaxTasks
    /\ tasks' = Append([tasks EXCEPT ![i].pc = "loop"], NewTask(tasks[i].abs))
    /\ UNCHANGED <<cfg, call, obsVars, crawlVars, wg, rwWriter, rwReaders, bVars>>

\* recursiveVisit(ctx, rw, wg, visited, absLink, visit)
ASpawn(i) ==
    /\ tasks[i].pc = "spawn" /\ ~panicked
    /\ Len(tasks) < MaxTasks
    /\ wg' = wg + 1
    /\ tasks' = Append([tasks EXCEPT ![i].pc = "loop"], NewTask(tasks[i].abs))
    /\ UNCHANGED <<cfg, call, obsVars, crawlVars, rwWriter, rwReaders, bVars>>

TaskStep(i) ==
    \/ ALock(i) \/ AInsert(i) \/ AFetch(i) \/ AFetchOk(i) \/ AFetchErr(i)
    \/ AVisit(i) \/ ANextLink(i) \/ ARLock(i) \/ ARead(i) \/ ASelect(i)
    \/ ASpawn(i)

NextA == ACrawl \/ ACrawlWait \/ \E i \in 1..Len(tasks) : TaskStep(i)

---------------------------------------------------------------------------
(* Strategy B: cyclicCrawler.Crawl, dispatchScrapperGoRoutines, scrapePage *)

\* maxConcurrent := uint32(1); if c.maxConcurrency > maxConcurrent { ... }
MaxConcurrent == IF cfg.pool > 1 THEN cfg.pool ELSE 1

\* make(chan struct{}, maxConcurrent)
TokensCap == MaxConcurrent

\* make(chan []*url.URL, 2*maxConcurrent)
CandidatesCap == 2 * MaxConcurrent

\* the goroutine started by dispatchScrapperGoRoutines for candidateURL u
NewWorker(u) == [u |-> u, pc |-> "start", page |-> FALSE, ctxDone |-> FALSE]

\* the orders in which a range over the map links may yield its keys
Orderings(S) ==
    {f \in [1..Cardinality(S) -> S] : \A i, j \in DOMAIN f : f[i] = f[j] => i = j}

\* the slices absLinks that the link loop of scrapePage may build for page u:
\* in map order, every href that resolves, to a URL of u's domain
AbsLinks(u) ==
    LET kept == {l \in GetPageLinks(u) :
                    /\ ~GetLinkAbsoluteUrl(u, l).err
                    /\ isSameDomain(u, GetLinkAbsoluteUrl(u, l).url)}
    IN  {[i \in DOMAIN f |-> GetLinkAbsoluteUrl(u, f[i]).url] : f \in Orderings(kept)}

\* BCrawl without the nil check of baseURL
BCrawlNoNilCheck ==
    /\ cfg.strategy = "B" /\ crawlPc = "start" /\ ~panicked
    /\ ch' = Append(ch, <<cfg.base>>)
    /\ crawlPc' = "select"
    /\ UNCHANGED <<cfg, call, obsVars, crawlErr, panicked, aVars,
                   tokens, closed, numGoroutines, workers, batch, idx>>

\* cyclicCrawler.Crawl up to the first iteration of ListenerLoop
BCrawl ==
    /\ cfg.strategy = "B" /\ crawlPc = "start" /\ ~panicked
    /\ IF cfg.base = NoURL
       THEN /\ crawlPc' = "returned"
            /\ crawlErr' = "error"
            /\ UNCHANGED ch
       ELSE /\ ch' = Append(ch, <<cfg.base>>)
            /\ crawlPc' = "select"
            /\ UNCHANGED crawlErr
    /\ UNCHANGED <<cfg, call, obsVars, panicked, aVars,
                   tokens, closed, numGoroutines, workers, batch, idx>>

\* select: case candidateURLs := <-chLinkCandidates
BSelectRecv ==
    /\ cfg.strategy = "B" /\ crawlPc = "select" /\ ~panicked
    /\ ch # <<>>
    /\ batch' = Head(ch)
    /\ ch' = Tail(ch)
    /\ idx' = 1
    /\ crawlPc' = "dispatch"
    /\ UNCHANGED <<cfg, call, obsVars, crawlErr, panicked, aVars,
                   tokens, closed, numGoroutines, workers>>

\* select: case <-ctx.Done(): break ListenerLoop
BSelectDone ==
    /\ cfg.strategy = "B" /\ crawlPc = "select" /\ ~panicked
    /\ cancelled
    /\ crawlPc' = "close"
    /\ UNCHANGED <<cfg, call, obsVars, crawlErr, panicked, aVars, bVars>>

\* select: default, taken when no other case is ready
BSelectDefault ==
    /\ cfg.strategy = "B" /\ crawlPc = "select" /\ ~panicked
    /\ ch = <<>> /\ ~cancelled
    /\ crawlPc' = "load"
    /\ UNCHANGED <<cfg, call, obsVars, crawlErr, panicked, aVars, bVars>>

\* BLoad in a default branch that breaks the loop without reading the
\* counter
BLoadBreak ==
    /\ cfg.strategy = "B" /\ crawlPc = "load" /\ ~panicked
    /\ crawlPc' = "close"
    /\ UNCHANGED <<cfg, call, obsVars, crawlErr, panicked, aVars, bVars>>

\* if atomic.LoadUint32(&numGoroutines) == 0 { break ListenerLoop }
BLoad ==
    /\ cfg.strategy = "B" /\ crawlPc = "load" /\ ~panicked
    /\ crawlPc' = IF numGoroutines = U32(0) THEN "close" ELSE "recv"
    /\ UNCHANGED <<cfg, call, obsVars, crawlErr, panicked, aVars, bVars>>

\* default: candidateURLs := <-chLinkCandidates (blocking)
BRecv ==
    /\ cfg.strategy = "B" /\ crawlPc = "recv" /\ ~panicked
    /\ ch # <<>>
    /\ batch' = Head(ch)
    /\ ch' = Tail(ch)
    /\ idx' = 1
    /\ crawlPc' = "dispatch"
    /\ UNCHANGED <<cfg, call, obsVars, crawlErr, panicked, aVars,
                   tokens, closed, numGoroutines, workers>>

\* BDispatch without the lookup of candidateURL in visited
BDispatchNoLookup ==
    /\ cfg.strategy = "B" /\ crawlPc = "dispatch" /\ ~panicked
    /\ IF idx > Len(batch)
       THEN /\ crawlPc' = "select"
            /\ UNCHANGED <<visited, numGoroutines, idx>>
       ELSE /\ visited' = visited \cup {String(batch[idx])}
            /\ numGoroutines' = AddUint32(numGoroutines, U32(1))
            /\ crawlPc' = "token"
            /\ UNCHANGED idx
    /\ UNCHANGED <<cfg, call, cancelled, fetched, visits, crawlErr, panicked, aVars,
                   tokens, ch, closed, workers, batch>>

\* dispatchScrapperGoRoutines: one iteration of the range over candidateURLs
\* up to atomic.AddUint32(numGoroutines, 1); after the last one, return
BDispatch ==
    /\ cfg.strategy = "B" /\ crawlPc = "dispatch" /\ ~panicked
    /\ IF idx > Len(batch)
       THEN /\ crawlPc' = "select"
            /\ UNCHANGED <<visited, numGoroutines, idx>>
       ELSE IF String(batch[idx]) \in visited
       THEN /\ idx' = idx + 1
            /\ UNCHANGED <<visited, numGoroutines, crawlPc>>
       ELSE /\ visited' = visited \cup {String(batch[idx])}
            /\ numGoroutines' = AddUint32(numGoroutines, U32(1))
            /\ crawlPc' = "token"
            /\ UNCHANGED idx
    /\ UNCHANGED <<cfg, call, cancelled, fetched, visits, crawlErr, panicked, aVars,
                   tokens, ch, closed, workers, batch>>

\* BToken with a send on tokens that never blocks
BTokenNoWait ==
    /\ cfg.strategy = "B" /\ crawlPc = "token" /\ ~panicked
    /\ Len(workers) < MaxTasks
    /\ tokens' = tokens + 1
    /\ workers' = Append(workers, NewWorker(batch[idx]))
    /\ idx' = idx + 1
    /\ crawlPc' = "dispatch"
    /\ UNCHANGED <<cfg, call, obsVars, crawlErr, panicked, aVars,
                   ch, closed, numGoroutines, batch>>

\* tokens <- struct{}{} ; go func(num, u) { ... }(numGoroutines, candidateURL)
BToken ==
    /\ cfg.strategy = "B" /\ crawlPc = "token" /\ ~panicked
    /\ tokens < TokensCap
    /\ Len(workers) < MaxTasks
    /\ tokens' = tokens + 1
    /\ workers' = Append(workers, NewWorker(batch[idx]))
    /\ idx' = idx + 1
    /\ crawlPc' = "dispatch"
    /\ UNCHANGED <<cfg, call, obsVars, crawlErr, panicked, aVars,
                   ch, closed, numGoroutines, batch>>

\* close(chLinkCandidates)
BClose ==
    /\ cfg.strategy = "B" /\ crawlPc = "close" /\ ~panicked
    /\ closed' = TRUE
    /\ crawlPc' = "return"
    /\ UNCHANGED <<cfg, call, obsVars, crawlErr, panicked, aVars,
                   tokens, ch, numGoroutines, workers, batch, idx>>

\* return nil
BReturn ==
    /\ cfg.strategy = "B" /\ crawlPc = "return" /\ ~panicked
    /\ crawlPc' = "returned"
    /\ crawlErr' = "nil"
    /\ UNCHANGED <<cfg, call, obsVars, panicked, aVars, bVars>>

CoordinatorStep ==
    \/ BCrawl \/ BSelectRecv \/ BSelectDone \/ BSelectDefault \/ BLoad
    \/ BRecv \/ BDispatch \/ BToken \/ BClose \/ BReturn

\* WFetch in a goroutine whose counter decrement is not deferred: it runs
\* first, before scrapePage
WFetchDecrFirst(w) ==
    /\ workers[w].pc = "start" /\ ~panicked
    /\ numGoroutines' = AddUint32(numGoroutines, AllOnes)
    /\ IF workers[w].u = NoURL
       THEN /\ workers' = [workers EXCEPT ![w].pc = "release"]
            /\ UNCHANGED fetched
       ELSE /\ fetched' = [fetched EXCEPT ![String(workers[w].u)] = @ + 1]
            /\ workers' = [workers EXCEPT ![w].pc = "fetching",
                                          ![w].ctxDone = cancelled]
    /\ UNCHANGED <<cfg, call, cancelled, visited, visits, crawlVars, aVars,
                   tokens, ch, closed, batch, idx>>

\* scrapePage: the nil check, then getPage(ctx, u.String()) is called
WFetch(w) ==
    /\ workers[w].pc = "start" /\ ~panicked
    /\ IF workers[w].u = NoURL
       THEN /\ workers' = [workers EXCEPT ![w].pc = "release"]
            /\ UNCHANGED fetched
       ELSE /\ fetched' = [fetched EXCEPT ![String(workers[w].u)] = @ + 1]
            /\ workers' = [workers EXCEPT ![w].pc = "fetching",
                                          ![w].ctxDone = cancelled]
    /\ UNCHANGED <<cfg, call, cancelled, visited, visits, crawlVars, aVars,
                   tokens, ch, closed, numGoroutines, batch, idx>>

\* getPage returned a page
WFetchOk(w) ==
    /\ workers[w].pc = "fetching" /\ ~panicked
    /\ GetPageMayReturn(workers[w].u, workers[w].ctxDone)
    /\ workers' = [workers EXCEPT ![w].pc = "visit", ![w].page = TRUE]
    /\ UNCHANGED <<cfg, call, obsVars, crawlVars, aVars,
                   tokens, ch, closed, numGoroutines, batch, idx>>

\* WFetchErr with releaseToken called at the end of the goroutine instead
\* of deferred: the early return skips it
WFetchErrNoRelease(w) ==
    /\ workers[w].pc = "fetching" /\ ~panicked
    /\ GetPageMayFail(workers[w].u, workers[w].ctxDone)
    /\ workers' = [workers EXCEPT ![w].pc = "decr"]
    /\ UNCHANGED <<cfg, call, obsVars, crawlVars, aVars,
                   tokens, ch, closed, numGoroutines, batch, idx>>

\* getPage returned an error: log and return
WFetchErr(w) ==
    /\ workers[w].pc = "fetching" /\ ~panicked
    /\ GetPageMayFail(workers[w].u, workers[w].ctxDone)
    /\ workers' = [workers EXCEPT ![w].pc = "release"]
    /\ UNCHANGED <<cfg, call, obsVars, crawlVars, aVars,
                   tokens, ch, closed, numGoroutines, batch, idx>>

\* visit(u, page)
WVisit(w) ==
    /\ workers[w].pc = "visit" /\ ~panicked
    /\ VisitEffect(workers[w].u)
    /\ workers' = [workers EXCEPT ![w].pc = "push"]
    /\ UNCHANGED <<cfg, call, visited, fetched, crawlVars, aVars,
                   tokens, ch, closed, numGoroutines, batch, idx>>

\* WPush in a scrapePage that marks the URLs of its batch in visited
WPushMarking(w) ==
    /\ workers[w].pc = "push" /\ ~panicked
    /\ ~closed
    /\ Len(ch) < CandidatesCap
    /\ \E absLinks \in AbsLinks(workers[w].u) :
          /\ ch' = Append(ch, absLinks)
          /\ visited' = visited \cup {String(absLinks[k]) : k \in 1..Len(absLinks)}
    /\ workers' = [workers EXCEPT ![w].pc = "release"]
    /\ UNCHANGED <<cfg, call, cancelled, fetched, visits, crawlVars, aVars,
                   tokens, closed, numGoroutines, batch, idx>>

\* the link loop and chLinkCandidates <- absLinks
WPush(w) ==
    /\ workers[w].pc = "push" /\ ~panicked
    /\ ~closed
    /\ Len(ch) < CandidatesCap
    /\ \E absLinks \in AbsLinks(workers[w].u) : ch' = Append(ch, absLinks)
    /\ workers' = [workers EXCEPT ![w].pc = "release"]
    /\ UNCHANGED <<cfg, call, obsVars, crawlVars, aVars,
                   tokens, closed, numGoroutines, batch, idx>>

\* chLinkCandidates <- absLinks on the closed channel: the goroutine panics
WPushClosed(w) ==
    /\ workers[w].pc = "push" /\ ~panicked
    /\ closed
    /\ panicked' = TRUE
    /\ workers' = [workers EXCEPT ![w].pc = "panic"]
    /\ UNCHANGED <<cfg, call, obsVars, crawlPc, crawlErr, aVars,
                   tokens, ch, closed, numGoroutines, batch, idx>>

\* defer releaseToken(tokens)
WRelease(w) ==
    /\ workers[w].pc = "release" /\ ~panicked
    /\ tokens > 0
    /\ tokens' = tokens - 1
    /\ workers' = [workers EXCEPT ![w].pc = "decr"]
    /\ UNCHANGED <<cfg, call, obsVars, crawlVars, aVars,
                   ch, closed, numGoroutines, batch, idx>>

\* defer atomic.AddUint32(num, ^uint32(0))
WDecr(w) ==
    /\ workers[w].pc = "decr" /\ ~panicked
    /\ numGoroutines' = AddUint32(numGoroutines, AllOnes)
    /\ workers' = [workers EXCEPT ![w].pc = "done"]
    /\ UNCHANGED <<cfg, call, obsVars, crawlVars, aVars,
                   tokens, ch, closed, batch, idx>>

WorkerStep(w) ==
    \/ WFetch(w) \/ WFetchOk(w) \/ WFetchErr(w) \/ WVisit(w)
    \/ WPush(w) \/ WPushClosed(w) \/ WRelease(w) \/ WDecr(w)

NextB == CoordinatorStep \/ \E w \in 1..Len(workers) : WorkerStep(w)

---------------------------------------------------------------------------

Next == Cancel \/ NextA \/ NextB

Spec == Init /\ [][Next]_vars

---------------------------------------------------------------------------
(* Fair scheduling: the Go scheduler runs every runnable goroutine, so the *)
(* goroutine of Crawl, every task and every worker keeps taking the step   *)
(* it is continuously able to take.  The signal handler is not fair: a     *)
(* signal need never arrive.                                               *)

Fairness ==
    /\ WF_vars(ACrawl \/ ACrawlWait)
    /\ WF_vars(CoordinatorStep)
    /\ \A i \in 1..MaxTasks : WF_vars(i <= Len(tasks) /\ TaskStep(i))
    /\ \A w \in 1..MaxTasks : WF_vars(w <= Len(workers) /\ WorkerStep(w))

FairSpec == Init /\ [][Next]_vars /\ Fairness

---------------------------------------------------------------------------
(* The pure helpers called directly, as the table tests of crawler_test.go *)
(* call them: the arguments are drawn from the sets below and the result   *)
(* of the call is recorded in call.                                        *)

\* the *url.URL arguments of isSameDomain: nil, a URL without host, and
\* URLs over two schemes, three hosts (one with a port) and two paths
UrlArgs ==
    {NoURL, MkURL("", "", <<"", "a">>)}
    \cup {MkURL(s, h, p) : s \in {"http", "https"}, h \in {"h", "x", "h:8080"},
                           p \in {<<"">>, <<"", "i", "business">>}}

\* the parent URLs of GetLinkAbsoluteUrl: without path, with a file at the
\* root, with a file in a directory, and with a directory path
ParentArgs ==
    {MkURL("https", "my", <<"">>),
     MkURL("https", "my", <<"", "test">>),
     MkURL("http", "h", <<"", "root", "parent">>),
     MkURL("http", "h:8080", <<"", "d", "">>)}

\* the hrefs of GetLinkAbsoluteUrl: absolute, malformed, rooted, relative
\* to the page, and starting with the "//" of a host
HrefArgs ==
    {Href("https", "my", <<"", "i", "business">>),
     Href("http", "x", <<"">>),
     BadHref,
     Href("", "", <<"", "i", "business">>),
     Href("", "", <<"", "">>),
     Href("", "", <<"i", "business">>),
     Href("", "", <<"index.html">>),
     Href("", "", <<"i", "">>),
     Href("", "x", <<"", "a">>),
     Href("", "x", <<"">>)}

\* the run of the table tests starts with no crawl: a nil root, no site
PureCfg ==
    [strategy |-> "A", site |-> SiteSingle, failing |-> {},
     cancelMode |-> "never", pool |-> 0, base |-> NoURL]

PureInit == Init /\ cfg = PureCfg

\* isSameDomain(par, child)
CallIsSameDomain ==
    /\ \E p \in UrlArgs, u \in UrlArgs :
          call' = [fn |-> "isSameDomain", a |-> p, b |-> u,
                   out |-> isSameDomain(p, u)]
    /\ UNCHANGED <<cfg, obsVars, crawlVars, aVars, bVars>>

\* GetLinkAbsoluteUrl(par, tt.link)
CallGetLinkAbsoluteUrl ==
    /\ \E parent \in ParentArgs, link \in HrefArgs :
          call' = [fn |-> "GetLinkAbsoluteUrl", a |-> parent, b |-> link,
                   out |-> GetLinkAbsoluteUrl(parent, link)]
    /\ UNCHANGED <<cfg, obsVars, crawlVars, aVars, bVars>>

PureNext == CallIsSameDomain \/ CallGetLinkAbsoluteUrl

PureSpec == PureInit /\ [][PureNext]_vars

---------------------------------------------------------------------------
(* Vocabulary of the properties *)

\* the URLs the in-domain links of page u resolve to
InDomainLinks(u) ==
    {GetLinkAbsoluteUrl(u, l).url :
        l \in {h \in GetPageLinks(u) :
                  /\ ~GetLinkAbsoluteUrl(u, h).err
                  /\ isSameDomain(u, GetLinkAbsoluteUrl(u, h).url)}}

RECURSIVE Closure(_, _)
\* the URLs reachable from S through in-domain links of pages outside dead
Closure(S, dead) ==
    LET next == S \cup UNION {InDomainLinks(u) : u \in S \ dead}
    IN  IF next = S THEN S ELSE Closure(next, dead)

\* the URLs whose fetch always fails
FailingUrls == {u \in Urls : String(u) \in cfg.failing}

\* the same-domain URLs reachable from the root through links
Reachable == Closure({cfg.base}, {})

\* the URLs reachable from the root through successfully fetched pages,
\* without the pages whose fetch fails
ReachableAlive == Closure({cfg.base}, FailingUrls) \ FailingUrls

\* the URLs passed to visit so far
VisitedUrls == {u \in Urls : visits[String(u)] > 0}

\* the number of visit calls so far
RECURSIVE SumOver(_, _)
SumOver(f, S) ==
    IF S = {} THEN 0
    ELSE LET k == CHOOSE x \in S : TRUE IN f[k] + SumOver(f, S \ {k})

TotalVisits == SumOver(visits, Keys)

Returned == crawlPc = "returned"
ReturnedNil == crawlPc = "returned" /\ crawlErr = "nil"

---------------------------------------------------------------------------
(* C1..C10 *)

\* C1: strategy A fetches each distinct canonical URL at most once and
\* passes it to visit at most once, whatever the interleaving of the tasks
\* and however many hrefs or tasks discover the URL.
C1_FetchedOnceA ==
    cfg.strategy = "A" =>
        \A k \in Keys : fetched[k] <= 1 /\ visits[k] <= 1

\* C2: strategy B dispatches at most one worker per distinct canonical URL,
\* so each URL is fetched at most once and visited at most once, for every
\* pool size and however many batches contain the URL.
C2_OneWorkerPerUrl ==
    cfg.strategy = "B" =>
        \A k \in Keys :
            /\ Cardinality({w \in 1..Len(workers) : String(workers[w].u) = k}) <= 1
            /\ fetched[k] <= 1
            /\ visits[k] <= 1

\* C2 witness: the coordinator meets, in a later batch, a URL whose worker
\* has already fetched and visited it
C2_Witness ==
    /\ cfg.strategy = "B"
    /\ crawlPc = "dispatch"
    /\ idx <= Len(batch)
    /\ String(batch[idx]) \in visited
    /\ visits[String(batch[idx])] = 1
    /\ \E w \in 1..Len(workers) : workers[w].u = batch[idx] /\ workers[w].pc = "done"

\* C3: without cancellation strategy B terminates under fair scheduling:
\* cyclicCrawler.Crawl eventually returns.
C3_TerminatesB ==
    (cfg.strategy = "B" /\ cfg.cancelMode = "never") => <>Returned

\* C4: without cancellation strategy A terminates under fair scheduling:
\* the WaitGroup reaches zero with every spawned task finished and
\* crawler.Crawl returns.
C4_TerminatesA ==
    (cfg.strategy = "A" /\ cfg.cancelMode = "never") =>
        <>(/\ Returned
           /\ wg = 0
           /\ \A i \in 1..Len(tasks) : tasks[i].pc = "done")

\* C4 witness: Crawl of strategy A has returned from the cyclic site after
\* a fetch failed and at least three tasks ran
C4_Witness ==
    /\ cfg.strategy = "A"
    /\ cfg.cancelMode = "never"
    /\ cfg.site = SiteDiamond
    /\ cfg.failing = {String(PB)}
    /\ Returned
    /\ Len(tasks) >= 3

\* C5: with no cancellation and every fetch succeeding, when Crawl returns
\* the URLs passed to visit are exactly the same-domain URLs reachable from
\* the root, in strategy A and in strategy B with any pool size.
C5_Complete ==
    (/\ cfg.cancelMode = "never"
     /\ cfg.failing = {}
     /\ ReturnedNil) => VisitedUrls = Reachable

\* C6: when the visit callback cancels during its first invocation, on the
\* root page, and fetches started after the cancellation fail, exactly one
\* page is ever passed to visit and Crawl returns nil, in either strategy.
C6_CancelOnFirstVisit ==
    (/\ cfg.cancelMode = "onVisit"
     /\ cfg.base # NoURL
     /\ String(cfg.base) \notin cfg.failing) =>
        /\ [](TotalVisits <= 1)
        /\ <>(ReturnedNil /\ TotalVisits = 1)

\* C7: when the fetch of one page other than the root always fails and
\* nothing is cancelled, every other page reachable from the root through
\* successfully fetched pages is visited and Crawl returns nil, in either
\* strategy.
C7_BestEffort ==
    (/\ cfg.cancelMode = "never"
     /\ cfg.base # NoURL
     /\ cfg.failing # {}
     /\ String(cfg.base) \notin cfg.failing) =>
        <>(ReturnedNil /\ ReachableAlive \subseteq VisitedUrls)

\* C8: once the cancellation signal is set, the coordinator of strategy B
\* dispatches no further worker: it acquires no token and starts no
\* goroutine, neither for the rest of the batch it is processing nor for
\* batches it still receives.
C8_NoDispatchAfterCancel ==
    [][(cfg.strategy = "B" /\ cancelled) =>
          (Len(workers') = Len(workers) /\ tokens' <= tokens)]_vars

\* C9: once cancellation is signalled, cyclicCrawler.Crawl eventually
\* returns nil, wherever the coordinator was when the signal arrived and
\* without waiting for the outstanding workers.
C9_CancelEndsB ==
    cfg.strategy = "B" => [](cancelled => <>ReturnedNil)

\* C10: every worker already dispatched when the coordinating loop ends on
\* cancellation runs to completion without error: no worker sends on the
\* candidate channel after the channel has been closed.
C10_NoSendOnClosed ==
    cfg.strategy = "B" =>
        /\ ~panicked
        /\ \A w \in 1..Len(workers) : workers[w].pc # "panic"

---------------------------------------------------------------------------
(* C11..C20 *)

\* the workers between their dispatch and the release of their token
InFlight ==
    {w \in 1..Len(workers) : workers[w].pc \notin {"decr", "done"}}

\* C11: in strategy B the number of workers in flight, between dispatch and
\* token release, never exceeds the configured maxConcurrency, a configured
\* value of 0 counting as 1.
C11_ConcurrencyBound ==
    cfg.strategy = "B" =>
        LET limit == IF cfg.pool = 0 THEN 1 ELSE cfg.pool IN
        /\ Cardinality(InFlight) <= limit
        /\ tokens <= limit

\* C11 witness: with maxConcurrency 0 one worker is fetching and the
\* coordinator waits for the only token to dispatch the next URL
C11_Witness ==
    /\ cfg.strategy = "B"
    /\ cfg.pool = 0
    /\ crawlPc = "token"
    /\ tokens = 1
    /\ \E w \in InFlight : workers[w].pc = "fetching"

\* C12: in either strategy a URL whose host differs from the host of the
\* root URL is never fetched and never passed to visit, even when a visited
\* page links to it: every task, every worker and every URL of a batch has
\* the host of the root.
C12_DomainScoped ==
    cfg.base # NoURL =>
        /\ \A u \in Urls :
              u.host # cfg.base.host =>
                  fetched[String(u)] = 0 /\ visits[String(u)] = 0
        /\ \A i \in 1..Len(tasks) : tasks[i].u.host = cfg.base.host
        /\ \A w \in 1..Len(workers) : workers[w].u.host = cfg.base.host
        /\ \A j \in 1..Len(ch) :
              \A k \in 1..Len(ch[j]) : ch[j][k].host = cfg.base.host
        /\ \A k \in 1..Len(batch) : batch[k].host = cfg.base.host

\* C12 witness: the task of a visited page has resolved its link to the
\* other host and moved on to its next link without dispatching it
C12_Witness ==
    /\ cfg.strategy = "A"
    /\ \E i \in 1..Len(tasks) :
          /\ tasks[i].u = PB
          /\ visits[String(PB)] >= 1
          /\ tasks[i].abs = PX
          /\ tasks[i].pc = "loop"

\* the tasks of strategy A that have not completed
LiveTasks == {i \in 1..Len(tasks) : tasks[i].pc # "done"}

\* C13: crawler.Crawl of strategy A returns only after every transitively
\* spawned task has completed: the WaitGroup counts the live tasks, so it is
\* never zero while a task is alive, no task is alive once Crawl has
\* returned, and after the return no task is spawned and visit is not
\* invoked.
C13_JoinBarrier ==
    /\ [](cfg.strategy = "A" =>
            /\ wg = Cardinality(LiveTasks)
            /\ (crawlPc = "returned" => LiveTasks = {}))
    /\ [][(cfg.strategy = "A" /\ crawlPc = "returned") =>
            (tasks' = tasks /\ visits' = visits)]_vars

\* C13 witness: Crawl has returned nil after the tasks of a chain of pages,
\* each spawned by the one before, have all completed
C13_Witness ==
    /\ cfg.strategy = "A"
    /\ cfg.site = SiteChain
    /\ ReturnedNil
    /\ Len(tasks) >= 3
    /\ visits[String(PB)] >= 1

\* C14: in either strategy Crawl called with a nil root URL returns a
\* non-nil error in its first step and does no work: no task or worker is
\* started, nothing is fetched or visited, and the visited map, the token
\* pool and the candidate channel are never touched.
C14_NilRoot ==
    cfg.base = NoURL =>
        /\ crawlPc \in {"start", "returned"}
        /\ (crawlPc = "returned" => crawlErr = "error")
        /\ tasks = <<>> /\ wg = 0
        /\ workers = <<>> /\ numGoroutines = U32(0)
        /\ \A k \in Keys : fetched[k] = 0 /\ visits[k] = 0
        /\ visited = {}
        /\ tokens = 0
        /\ ch = <<>> /\ ~closed

\* C14 witness: cyclicCrawler.Crawl has returned its error for a nil root
C14_Witness ==
    /\ cfg.strategy = "B"
    /\ cfg.base = NoURL
    /\ crawlPc = "returned"
    /\ crawlErr = "error"

\* the tasks and workers that hold a fetched page not yet passed to visit
PendingVisitTasks == {i \in 1..Len(tasks) : tasks[i].pc = "visit"}
PendingVisitWorkers == {w \in 1..Len(workers) : workers[w].pc = "visit"}

\* the tasks and workers of URL key k that got a page and are past visit
VisitedBy(k) ==
    Cardinality({i \in 1..Len(tasks) :
                    String(tasks[i].u) = k /\ tasks[i].page /\ tasks[i].pc # "visit"})
    + Cardinality({w \in 1..Len(workers) :
                    String(workers[w].u) = k /\ workers[w].page
                    /\ workers[w].pc # "visit"})

\* C15: in either strategy every successful fetch of a URL is followed by
\* exactly one call of visit for that URL, made by the task or worker that
\* fetched it before it looks at any link of the page, and visit is never
\* called for a URL whose fetch failed: the visits of a URL are exactly the
\* goroutines that got its page and moved on, a goroutine that has not yet
\* visited has no link in hand, and no fetched page waits for its visit
\* forever.
C15_VisitFollowsFetch ==
    /\ [](/\ \A k \in Keys : visits[k] = VisitedBy(k)
          /\ \A i \in 1..Len(tasks) :
                (~tasks[i].page \/ tasks[i].pc = "visit") =>
                    (tasks[i].links = {} /\ tasks[i].abs = NoURL)
          /\ \A w \in 1..Len(workers) :
                ~workers[w].page => workers[w].pc \notin {"visit", "push", "panic"})
    /\ []<>(PendingVisitTasks = {} /\ PendingVisitWorkers = {})

\* the tasks that took the default branch of the select and have not yet
\* run the go statement of recursiveVisit
AtSpawn == {i \in 1..Len(tasks) : tasks[i].pc = "spawn"}

\* C16 as stated: in strategy A no task spawns a task in a state where the
\* cancellation has already been signalled (the root task, started by Crawl
\* itself, aside), and a task that observes the cancellation in its poll
\* completes without looking at another link.
C16_NoSpawnAfterCancel ==
    [][(cfg.strategy = "A" /\ cancelled /\ tasks # <<>>) =>
          /\ Len(tasks') = Len(tasks)
          /\ \A i \in 1..Len(tasks) :
                (tasks[i].pc = "select" /\ tasks'[i] # tasks[i]) =>
                    tasks'[i] = [tasks[i] EXCEPT !.pc = "done"]]_vars

\* C16 amended: a task of strategy A that polls the cancellation after it
\* has been signalled spawns nothing, leaves its remaining links and
\* completes; once the signal is set no further task gets past the poll,
\* and a task other than the root is spawned only by a task that was
\* already past its poll, which spawns one task and must poll again before
\* the next.
C16_PollBeforeSpawn ==
    [][cfg.strategy = "A" =>
          /\ (tasks # <<>> /\ Len(tasks') > Len(tasks)) =>
                /\ Len(tasks') = Len(tasks) + 1
                /\ \E i \in AtSpawn : tasks'[i].pc = "loop"
                /\ Cardinality(AtSpawn') = Cardinality(AtSpawn) - 1
          /\ cancelled =>
                /\ Cardinality(AtSpawn') <= Cardinality(AtSpawn)
                /\ \A i \in 1..Len(tasks) :
                      (tasks[i].pc = "select" /\ tasks'[i] # tasks[i]) =>
                          /\ tasks'[i] = [tasks[i] EXCEPT !.pc = "done"]
                          /\ Len(tasks') = Len(tasks)
                          /\ wg' = wg - 1]_vars

\* C16 witness: after the cancellation a task that had found an unvisited
\* link has completed with links of its page left unexamined
C16_Witness ==
    /\ cfg.strategy = "A"
    /\ cancelled
    /\ \E i \in 1..Len(tasks) :
          /\ tasks[i].pc = "done"
          /\ tasks[i].page
          /\ tasks[i].abs # NoURL
          /\ tasks[i].links # {}

\* C17: isSameDomain(a, b) is true exactly when both arguments are non-nil
\* and have the same host, port included: a nil argument on either side
\* gives false, equal hosts give true whatever the schemes and paths, and
\* different hosts give false.
C17_SameDomainIffSameHost ==
    call.fn = "isSameDomain" =>
        /\ (call.a = NoURL \/ call.b = NoURL) => call.out = FALSE
        /\ (call.a # NoURL /\ call.b # NoURL) =>
              (call.out = TRUE <=> call.a.host = call.b.host)

\* C17 witness: two URLs of the same host and port that differ in scheme
\* and in path were compared and found to be of the same domain
C17_Witness ==
    /\ call.fn = "isSameDomain"
    /\ call.a.host = "h:8080" /\ call.b.host = "h:8080"
    /\ call.a.scheme # call.b.scheme
    /\ call.a.path # call.b.path
    /\ call.out = TRUE

\* the path of the directory of base path p followed by the non-empty
\* elements of the relative path q
SiblingPath(p, q) ==
    <<"">> \o DropEmpty(SubSeq(p, 1, Len(p) - 1)) \o DropEmpty(q)

\* the two resolutions that crawler_test.go and the README give as examples
ResolvesExamples ==
    /\ (call.a.path = <<"", "root", "parent">> /\ call.b = Href("", "", <<"index.html">>))
          => call.out.url = MkURL("http", "h", <<"", "root", "index.html">>)
    /\ (call.a.path \in {<<"">>, <<"", "test">>} /\ call.b = Href("", "", <<"i", "business">>))
          => call.out.url = MkURL("https", "my", <<"", "i", "business">>)

\* C18 as stated: GetLinkAbsoluteUrl(base, href) returns an absolute href
\* as it is; otherwise an href that starts with '/' resolves to its path
\* on the scheme and host of base; otherwise the href resolves to its path
\* in the directory of the path of base; an href that does not parse gives
\* an error and no URL.
C18_ResolvesAsStated ==
    call.fn = "GetLinkAbsoluteUrl" =>
        LET base == call.a
            href == call.b
            out  == call.out
        IN  IF href.scheme = "" /\ href.colon
            THEN out.err /\ out.url = NoURL
            ELSE /\ ~out.err
                 /\ IF href.scheme # ""
                    THEN out.url = MkURL(href.scheme, href.host, href.path)
                    ELSE IF HasSlashPrefix(href)
                    THEN out.url = MkURL(base.scheme, base.host, href.path)
                    ELSE out.url = MkURL(base.scheme, base.host,
                                         SiblingPath(base.path, href.path))
                 /\ ResolvesExamples

\* C18 amended: as C18, except that an href without scheme that starts
\* with "//" names a host of its own and resolves to its path on that host
\* with the scheme of base; only an href starting with a single '/'
\* resolves against the root of the host of base.
C18_Resolves ==
    call.fn = "GetLinkAbsoluteUrl" =>
        LET base == call.a
            href == call.b
            out  == call.out
        IN  IF href.scheme = "" /\ href.colon
            THEN out.err /\ out.url = NoURL
            ELSE /\ ~out.err
                 /\ IF href.scheme # ""
                    THEN out.url = MkURL(href.scheme, href.host, href.path)
                    ELSE IF href.host # ""
                    THEN out.url = MkURL(base.scheme, href.host, href.path)
                    ELSE IF HasSlashPrefix(href)
                    THEN out.url = MkURL(base.scheme, base.host, href.path)
                    ELSE out.url = MkURL(base.scheme, base.host,
                                         SiblingPath(base.path, href.path))
                 /\ ResolvesExamples

\* C18 witness: the href index.html of the page .../root/parent has been
\* resolved to .../root/index.html
C18_Witness ==
    /\ call.fn = "GetLinkAbsoluteUrl"
    /\ call.a = MkURL("http", "h", <<"", "root", "parent">>)
    /\ call.b = Href("", "", <<"index.html">>)
    /\ call.out = [err |-> FALSE, url |-> MkURL("http", "h", <<"", "root", "index.html">>)]

\* the workers that may still send a batch on the candidate channel
Producers ==
    {w \in 1..Len(workers) : workers[w].pc \in {"start", "fetching", "visit", "push"}}

\* C19: the coordinator of strategy B is never left in the blocking receive
\* of its default branch with the candidate channel empty and no worker
\* that will still send a batch, whether the last workers' fetches failed
\* or the last worker decrements the counter after its batch was consumed.
C19_NeverBlockedForGood ==
    cfg.strategy = "B" =>
        ~(crawlPc = "recv" /\ ch = <<>> /\ Producers = {})

\* C20: when nothing is cancelled, the coordinator of strategy B leaves its
\* loop only with the candidate channel empty and the worker counter zero,
\* so that no batch is left unconsumed in the channel when Crawl closes it
\* and returns.
C20_EndsOnlyWhenDrained ==
    (/\ cfg.strategy = "B"
     /\ ~cancelled
     /\ crawlPc \in {"close", "return", "returned"}
     /\ cfg.base # NoURL) =>
        ch = <<>> /\ numGoroutines = U32(0)

---------------------------------------------------------------------------
(* C21..C30 *)

\* C21: in both strategies every URL whose fetch has started, whether it is
\* in flight, succeeded or failed, is in the visited map, and the visited
\* map never loses a key during a Crawl: a URL whose fetch failed stays
\* marked.
C21_InsertBeforeFetch ==
    /\ [](\A k \in Keys : fetched[k] > 0 => k \in visited)
    /\ [][visited \subseteq visited']_vars

\* C21 witness: the fetch of page a has failed, its goroutine has ended,
\* Crawl has returned and a is still in the visited map
C21_Witness ==
    /\ cfg.failing = {String(PA)}
    /\ fetched[String(PA)] >= 1
    /\ visits[String(PA)] = 0
    /\ String(PA) \in visited
    /\ ReturnedNil
    /\ \/ \E i \in 1..Len(tasks) :
             tasks[i].u = PA /\ tasks[i].pc = "done" /\ ~tasks[i].page
       \/ \E w \in 1..Len(workers) :
             workers[w].u = PA /\ workers[w].pc = "done" /\ ~workers[w].page

\* C22: in strategy B the coordinator acquires a token before it starts a
\* worker and every worker releases exactly one token when it exits,
\* whatever its exit path: the number of tokens held always equals the
\* number of workers dispatched and not yet past their release, a step
\* changes it by at most one, and it is zero once every worker has exited.
C22_TokenDiscipline ==
    /\ [](cfg.strategy = "B" =>
            /\ tokens = Cardinality(InFlight)
            /\ ((\A w \in 1..Len(workers) : workers[w].pc = "done") => tokens = 0))
    /\ [][cfg.strategy = "B" =>
            /\ (Len(workers') > Len(workers) => tokens' = tokens + 1)
            /\ \A w \in 1..Len(workers) :
                  (workers[w].pc # "decr" /\ workers'[w].pc = "decr") =>
                      tokens' = tokens - 1]_vars

\* C22 witness: a worker whose fetch failed and a worker whose fetch
\* succeeded have both exited and no token is held
C22_Witness ==
    /\ cfg.strategy = "B"
    /\ tokens = 0
    /\ \A w \in 1..Len(workers) : workers[w].pc = "done"
    /\ \E w \in 1..Len(workers) : ~workers[w].page
    /\ \E w \in 1..Len(workers) : workers[w].page

\* the workers that have not yet decremented the counter
Undecremented == {w \in 1..Len(workers) : workers[w].pc # "done"}

C24_MalformedLinkSkipped ==
    /\ [](/\ (crawlPc = "returned" /\ cfg.base # NoURL) => crawlErr = "nil"
          /\ \A i \in 1..Len(tasks) :
                (tasks[i].pc = "done" /\ tasks[i].page /\ ~cancelled) =>
                    tasks[i].links = {})
    /\ [][/\ \A i \in 1..Len(tasks) :
                (tasks[i].pc = "loop" /\ tasks[i].links # {} /\ tasks'[i] # tasks[i]) =>
                    \E link \in tasks[i].links :
                        /\ tasks'[i].links = tasks[i].links \ {link}
                        /\ tasks'[i].pc =
                              IF ParseErr(link) THEN "loop" ELSE "rlock"
          /\ \A w \in 1..Len(workers) :
                (workers[w].pc = "push" /\ workers'[w].pc = "release") =>
                    /\ Len(ch') = Len(ch) + 1
                    /\ {ch'[Len(ch')][k] : k \in 1..Len(ch'[Len(ch')])}
                          = InDomainLinks(workers[w].u)]_vars

\* C24 witness: the task of page a has met the malformed href, skipped it
\* and then resolved the other href of the page, which it is about to
\* look up
C24_Witness ==
    /\ cfg.strategy = "A"
    /\ cfg.site = SiteDiamond
    /\ \E i \in 1..Len(tasks) :
          /\ tasks[i].u = PA
          /\ tasks[i].links = {}
          /\ tasks[i].abs = PB
          /\ tasks[i].pc = "rlock"

\* the URLs for which a task or a worker exists, or that wait in a batch
Scheduled ==
    {tasks[i].u : i \in 1..Len(tasks)}
    \cup {workers[w].u : w \in 1..Len(workers)}
    \cup UNION {{ch[j][k] : k \in 1..Len(ch[j])} : j \in 1..Len(ch)}
    \cup {batch[k] : k \in 1..Len(batch)}

\* C25: in either strategy a URL other than the root is scheduled, and so
\* fetched, only after a page with a link that resolves to it has been
\* fetched and passed to visit; the root alone has no such predecessor.
C25_CausalOrder ==
    \A u \in Urls \ {cfg.base} :
        (fetched[String(u)] > 0 \/ u \in Scheduled) =>
            \E p \in Urls :
                /\ visits[String(p)] > 0
                /\ fetched[String(p)] > 0
                /\ u \in InDomainLinks(p)

\* C25 witness: page b, which only page a links to, is being fetched after
\* a was visited, a itself after the root
C25_Witness ==
    /\ cfg.site = SiteChain
    /\ fetched[String(PB)] >= 1
    /\ visits[String(PB)] = 0
    /\ visits[String(PA)] >= 1
    /\ visits[String(Root)] >= 1

\* C26: in strategy A every insert into the visited map is made by the
\* task holding the exclusive lock and every lookup by a task holding the
\* shared lock, a writer never holds the lock together with a reader or
\* another writer, and a task holds the lock only between Lock and Unlock
\* or RLock and RUnlock: never while it fetches, calls visit or spawns.
C26_LockDiscipline ==
    /\ [](cfg.strategy = "A" =>
            /\ rwWriter # 0 => rwReaders = {}
            /\ \A i \in 1..Len(tasks) :
                  /\ rwWriter = i <=> tasks[i].pc = "locked"
                  /\ i \in rwReaders <=> tasks[i].pc = "rlocked"
            /\ rwWriter \in 0..Len(tasks)
            /\ rwReaders \subseteq 1..Len(tasks))
    /\ [][cfg.strategy = "A" =>
            /\ visited' # visited =>
                  /\ rwWriter # 0 /\ rwReaders = {}
                  /\ visited' = visited \cup {String(tasks[rwWriter].u)}
                  /\ rwWriter' = 0
            /\ (\/ fetched' # fetched
                \/ visits' # visits
                \/ (tasks # <<>> /\ Len(tasks') > Len(tasks))) =>
                  \E i \in 1..Len(tasks) :
                      /\ tasks'[i] # tasks[i]
                      /\ rwWriter # i /\ i \notin rwReaders]_vars

\* C26 witness: a task holds the shared lock for its lookup while a task
\* it spawned waits for the exclusive lock to insert its URL
C26_Witness ==
    /\ cfg.strategy = "A"
    /\ rwReaders # {}
    /\ rwWriter = 0
    /\ \E i \in 1..Len(tasks) : tasks[i].pc = "lock"

\* C27: in strategy B only the coordinating loop touches the visited map:
\* the map changes only in a step of the coordinator inside
\* dispatchScrapperGoRoutines, by the insertion of the candidate it is
\* looking at, and every step of a worker leaves the map unchanged.
C27_VisitedOwnedByCoordinator ==
    [][cfg.strategy = "B" =>
          /\ visited' # visited =>
                /\ crawlPc = "dispatch" /\ crawlPc' = "token"
                /\ idx <= Len(batch)
                /\ visited' = visited \cup {String(batch[idx])}
                /\ workers' = workers
          /\ workers' # workers => visited' = visited]_vars

\* C27 witness: three workers have run to their end and the map holds the
\* three URLs the coordinator inserted for them
C27_Witness ==
    /\ cfg.strategy = "B"
    /\ Len(workers) = 3
    /\ \A w \in 1..Len(workers) : workers[w].pc = "done"
    /\ visited = {String(workers[w].u) : w \in 1..Len(workers)}
    /\ Cardinality(visited) = 3

\* C28: in strategy B, whatever the pool size and the number of new links
\* of a page, the coordinator is never blocked on the token send of
\* dispatchScrapperGoRoutines while every worker holding a token is blocked
\* on its send to a full candidate channel.
C28_NoPoolQueueDeadlock ==
    cfg.strategy = "B" =>
        ~(/\ crawlPc = "token"
          /\ tokens = TokensCap
          /\ Len(ch) = CandidatesCap
          /\ \A w \in InFlight : workers[w].pc = "push")

\* C29: the worker counter of strategy B never wraps below zero: it always
\* equals the number of increments made for dispatched workers minus the
\* number of workers that have decremented, and a worker decrements only a
\* counter that its own increment has made positive.
C29_CounterNeverWraps ==
    /\ [](cfg.strategy = "B" =>
            /\ numGoroutines.hi = 0
            /\ numGoroutines.lo =
                  Cardinality(Undecremented) + (IF crawlPc = "token" THEN 1 ELSE 0))
    /\ [][cfg.strategy = "B" =>
            \A w \in 1..Len(workers) :
                (workers[w].pc = "decr" /\ workers'[w].pc = "done") =>
                    /\ numGoroutines.lo >= 1
                    /\ numGoroutines' = U32(numGoroutines.lo - 1)]_vars

\* C29 witness: one worker has decremented while two increments are still
\* outstanding
C29_Witness ==
    /\ cfg.strategy = "B"
    /\ numGoroutines = U32(2)
    /\ \E w \in 1..Len(workers) : workers[w].pc = "done"

\* C30: when Crawl of strategy B has left its loop and returns with no
\* cancellation signalled, every dispatched worker has run to its end and
\* no token is held, and after the return nothing is fetched or visited.
C30_QuietAfterReturn ==
    /\ [](( /\ cfg.strategy = "B"
            /\ ~cancelled
            /\ crawlPc \in {"close", "return", "returned"}
            /\ cfg.base # NoURL) =>
              /\ \A w \in 1..Len(workers) : workers[w].pc = "done"
              /\ tokens = 0)
    /\ [][(cfg.strategy = "B" /\ ~cancelled /\ crawlPc = "returned") =>
              (fetched' = fetched /\ visits' = visits /\ workers' = workers)]_vars

\* C30 witness: Crawl of strategy B has returned nil with no cancellation
\* after three workers ran
C30_Witness ==
    /\ cfg.strategy = "B"
    /\ ~cancelled
    /\ ReturnedNil
    /\ Len(workers) >= 3
    /\ TotalVisits >= 3

====
